---- MODULE Spec2Model ----
(***************************************************************************)
(* A model of fqvendorfail (src/fqvendorfail/vfail.py): the probe, the two *)
(* FASTQ record iterators, the lock-step failure scan with its fallback,   *)
(* the range merger, the output naming and the chunked writer.             *)
(*                                                                         *)
(* A bytes object is a sequence of one-character strings, a file offset is *)
(* 0-based (as tell() reports it), a file name is a record                 *)
(* [dir, stem, ext] standing for the path dir/stem+ext.                    *)
(***************************************************************************)
EXTENDS Integers, Sequences, FiniteSets, TLC

VARIABLES
    fs,             \* the file system: path -> regular file (raw bytes) or symbolic link
    fq_list,        \* vendorfail's fq_list: the input paths, in order
    out_prefix,     \* vendorfail's out_prefix: [dir, stem]
    pc,             \* the statement the single thread is at
    strategy,       \* the Strategy chosen by check_format (or handed to scan)
    iterfunc,       \* block_scan's fq_iterfunc
    gens,           \* block_scan's fq_gen_list: one generator state per file
    bad_ranges,     \* block_scan's dict, indexed by position in fq_list
    fellback,       \* scan is in (or past) its except clause
    merged_ranges,  \* merge_ranges' result
    ranges_in,      \* the argument of a direct merge_range_set call
    out_file_dict,  \* get_outfile_dict's result, indexed by position in fq_list
    widx,           \* vendorfail's write loop: the file being written
    ridx,           \* write_pass: the index of the current range
    src_pos,        \* write_pass: src.tell()
    length,         \* copy_chunks' length (bytes still to copy)
    chunk_size,     \* copy_chunks' / copy_last_chunk's chunk_size
    call_length,    \* the length the running copy_chunks call was entered with
    call_copied,    \* the bytes the running copy_chunks call has written
    last_read,      \* the size asked of the latest src.read
    error           \* the exception that ended the run, or "none"

vars == <<fs, fq_list, out_prefix, pc, strategy, iterfunc, gens, bad_ranges,
          fellback, merged_ranges, ranges_in, out_file_dict, widx, ridx,
          src_pos, length, chunk_size, call_length, call_copied, last_read,
          error>>

(***************************************************************************)
(* Bounds of the model.                                                    *)
(***************************************************************************)
MaxFiles == 3
MaxRecords == 2

(***************************************************************************)
(* Small helpers.                                                          *)
(***************************************************************************)
Min(S) == CHOOSE x \in S : \A y \in S : x <= y

RECURSIVE SumLen(_)
SumLen(lines) ==
    IF lines = <<>> THEN 0 ELSE Len(Head(lines)) + SumLen(Tail(lines))

RECURSIVE Concat(_)
Concat(seqs) ==
    IF seqs = <<>> THEN <<>> ELSE Head(seqs) \o Concat(Tail(seqs))

(***************************************************************************)
(* Files.  gzip framing is modelled as a magic byte in front of the        *)
(* payload: a compressed stream is never equal to its payload, and a       *)
(* stream is compressed exactly when it starts with the magic byte.        *)
(***************************************************************************)
GzipMagic == "<1f8b>"

gzip_compress(data) == <<GzipMagic>> \o data

is_gzip_stream(raw) == Len(raw) > 0 /\ raw[1] = GzipMagic

gzip_decompress(raw) == Tail(raw)

flexopen(filename) ==
    IF filename.ext \in {".fq", ".fastq"} THEN "open"
    ELSE IF filename.ext = ".gz" THEN "gzip.open"
    ELSE "None"

\* What a handle opened 'rb' with flexopen(filename) reads.
open_rb(disk, filename) ==
    IF flexopen(filename) = "gzip.open" THEN gzip_decompress(disk[filename].raw)
    ELSE disk[filename].raw

\* What a handle opened 'wb' with `openfun` leaves on disk after writing data.
written_wb(openfun, data) ==
    IF openfun = "gzip.open" THEN gzip_compress(data) ELSE data

RegularFile(raw) == [type |-> "file", raw |-> raw, target |-> ""]

SymLink(target) == [type |-> "link", raw |-> <<>>, target |-> target]

basename(filename) == [stem |-> filename.stem, ext |-> filename.ext]

\* fq.readline() at offset pos: through the next newline, or to end of data.
readline(data, pos) ==
    LET nl == {i \in (pos + 1)..Len(data) : data[i] = "\n"}
    IN  IF pos >= Len(data) THEN <<>>
        ELSE IF nl = {} THEN SubSeq(data, pos + 1, Len(data))
        ELSE SubSeq(data, pos + 1, Min(nl))

\* src.read(nbytes) at offset pos.
read(data, pos, nbytes) ==
    IF pos >= Len(data) THEN <<>>
    ELSE SubSeq(data, pos + 1, Min({pos + nbytes, Len(data)}))

\* The offset after handle.seek(offset, SEEK_CUR): a plain file may be
\* positioned past its end, a gzip reader stops at the end of the data.
seek_cur(openfun, data, pos, offset) ==
    IF openfun = "gzip.open" THEN Min({pos + offset, Len(data)})
    ELSE pos + offset

(***************************************************************************)
(* The record iterators.  A generator is [started, tell, offset]; one      *)
(* next() on it gives [kind, block, gen] with kind "block", "stop"         *)
(* (StopIteration) or "raise" (IrregularRecordLengthException).            *)
(***************************************************************************)
NewGen == [started |-> FALSE, tell |-> 0, offset |-> 0]

NoBlock == [position |-> 0, line0 |-> <<>>, length |-> 0]

Block(position, line0, len) ==
    [position |-> position, line0 |-> line0, length |-> len]

iter_linescan(openfun, data, gen) ==
    LET pos == gen.tell
        l1 == readline(data, pos)
        l2 == readline(data, pos + Len(l1))
        l3 == readline(data, pos + Len(l1) + Len(l2))
        l4 == readline(data, pos + Len(l1) + Len(l2) + Len(l3))
        lines == <<l1, l2, l3, l4>>
    IN  IF \E i \in 1..4 : Len(lines[i]) = 0
        THEN [kind |-> "stop", block |-> NoBlock,
              gen |-> [gen EXCEPT !.started = TRUE]]
        ELSE [kind |-> "block",
              block |-> Block(pos, lines[1], SumLen(lines)),
              gen |-> [started |-> TRUE, tell |-> pos + SumLen(lines),
                       offset |-> 0]]

\* The combined length of lines 2-4 of the first record.
seekscan_offset(data) ==
    LET line0 == readline(data, 0)
        l2 == readline(data, Len(line0))
        l3 == readline(data, Len(line0) + Len(l2))
        l4 == readline(data, Len(line0) + Len(l2) + Len(l3))
    IN  SumLen(<<l2, l3, l4>>)

\* iter_seekscan with a slip: the block's length leaves out the identifier line.
iter_seekscan_offset_only(openfun, data, gen) ==
    LET g == IF gen.started THEN gen
             ELSE [started |-> TRUE, tell |-> 0, offset |-> seekscan_offset(data)]
        pos == g.tell
        line == readline(data, pos)
    IN  IF Len(line) = 0
        THEN [kind |-> "stop", block |-> NoBlock, gen |-> g]
        ELSE IF line[1] # "@"
        THEN [kind |-> "raise", block |-> NoBlock, gen |-> g]
        ELSE [kind |-> "block",
              block |-> Block(pos, line, g.offset),
              gen |-> [g EXCEPT !.tell =
                          seek_cur(openfun, data, pos + Len(line), g.offset)]]

iter_seekscan(openfun, data, gen) ==
    LET g == IF gen.started THEN gen
             ELSE [started |-> TRUE, tell |-> 0, offset |-> seekscan_offset(data)]
        pos == g.tell
        line == readline(data, pos)
    IN  IF Len(line) = 0
        THEN [kind |-> "stop", block |-> NoBlock, gen |-> g]
        ELSE IF line[1] # "@"
        THEN [kind |-> "raise", block |-> NoBlock, gen |-> g]
        ELSE [kind |-> "block",
              block |-> Block(pos, line, Len(line) + g.offset),
              gen |-> [g EXCEPT !.tell =
                          seek_cur(openfun, data, pos + Len(line), g.offset)]]

gen_next(func, openfun, data, gen) ==
    IF func = "iter_seekscan" THEN iter_seekscan(openfun, data, gen)
    ELSE iter_linescan(openfun, data, gen)

(***************************************************************************)
(* block_fail, bad_range and one round of block_scan's zip loop.           *)
(***************************************************************************)
block_fail(block) ==
    \E i \in 1..(Len(block.line0) - 2) :
        /\ block.line0[i] = ":"
        /\ block.line0[i + 1] = "Y"
        /\ block.line0[i + 2] = ":"

bad_range(block) == [position |-> block.position, length |-> block.length]

\* zip(*fq_gen_list) asks the generators in order and stops at the first one
\* that is exhausted; an exception of a generator ends the round as well.
zip_next(func, names, disk, gs) ==
    LET res == [i \in 1..Len(names) |->
                   gen_next(func, flexopen(names[i]), open_rb(disk, names[i]), gs[i])]
        odd == {i \in 1..Len(names) : res[i].kind # "block"}
        upto == IF odd = {} THEN Len(names) ELSE Min(odd)
    IN  [kind |-> IF odd = {} THEN "block" ELSE res[Min(odd)].kind,
         blocks |-> [i \in 1..Len(names) |-> res[i].block],
         gens |-> [i \in 1..Len(names) |-> IF i <= upto THEN res[i].gen ELSE gs[i]]]

\* The positions of the file-set that name the file position j names, in
\* order: bad_ranges is a dict keyed by file name, so these share one list.
same_key(names, j) ==
    SelectSeq([i \in 1..Len(names) |-> i], LAMBDA i : names[i] = names[j])

\* The body of block_scan's for loop.  bad[j] is the dict's list for
\* names[j]; every position appends its block to the list of its name.
scan_round(names, bad, blocks) ==
    IF \E i \in 1..Len(blocks) : block_fail(blocks[i])
    THEN [j \in 1..Len(bad) |->
             bad[j] \o [k \in 1..Len(same_key(names, j)) |->
                           bad_range(blocks[same_key(names, j)[k]])]]
    ELSE bad

EmptyRanges(names) == [i \in 1..Len(names) |-> <<>>]

NewGens(names) == [i \in 1..Len(names) |-> NewGen]

\* block_scan run to its end: the dict it returns, or "raise".
RECURSIVE block_scan_from(_, _, _, _, _)
block_scan_from(func, names, disk, gs, bad) ==
    LET z == zip_next(func, names, disk, gs)
    IN  IF z.kind = "stop" THEN [kind |-> "return", bad_ranges |-> bad]
        ELSE IF z.kind = "raise" THEN [kind |-> "raise", bad_ranges |-> bad]
        ELSE block_scan_from(func, names, disk, z.gens,
                             scan_round(names, bad, z.blocks))

block_scan(names, disk, func) ==
    block_scan_from(func, names, disk, NewGens(names), EmptyRanges(names))

(***************************************************************************)
(* validate_casava_header: the Casava 1.8 regular expression, matched at   *)
(* the start of the line as re.match does.  A pattern is a sequence of     *)
(* items [cls, lo, hi]: between lo and hi characters of cls (hi = -1: no   *)
(* upper limit).                                                           *)
(***************************************************************************)
Digit == {"0", "1", "2", "3", "4", "5", "6", "7", "8", "9"}

Upper == {"A", "B", "C", "D", "E", "F", "G", "H", "I", "J", "K", "L", "M",
          "N", "O", "P", "Q", "R", "S", "T", "U", "V", "W", "X", "Y", "Z"}

Lit(c) == [cls |-> {c}, lo |-> 1, hi |-> 1]

Plus(cls) == [cls |-> cls, lo |-> 1, hi |-> -1]

casava_18_line_re ==
    << Lit("@"), Plus({"-", "_"} \cup Upper \cup Digit), Lit(":"),
       Plus(Digit), Lit(":"),
       Plus(Upper \cup Digit), Lit(":"),
       [cls |-> Digit, lo |-> 1, hi |-> 2], Lit(":"),
       Plus(Digit), Lit(":"),
       Plus(Digit), Lit(":"),
       Plus(Digit),
       Lit(" "),
       [cls |-> {"1", "2", "3"}, lo |-> 1, hi |-> 1], Lit(":"),
       [cls |-> {"Y", "N"}, lo |-> 1, hi |-> 1], Lit(":"),
       Plus(Digit), Lit(":"),
       Plus({"A", "T", "G", "C"} \cup Digit) >>

\* Whether items k.. of the pattern match the line from (1-based) index j on.
RECURSIVE re_match_from(_, _, _, _)
re_match_from(pat, k, line, j) ==
    IF k > Len(pat) THEN TRUE
    ELSE LET most == IF pat[k].hi = -1 THEN Len(line) - j + 1 ELSE pat[k].hi
         IN  \E n \in pat[k].lo..most :
                /\ j + n - 1 <= Len(line)
                /\ \A m \in 0..(n - 1) : line[j + m] \in pat[k].cls
                /\ re_match_from(pat, k + 1, line, j + n)

validate_casava_header(line) == re_match_from(casava_18_line_re, 1, line, 1)

(***************************************************************************)
(* check_format: the probe.                                                *)
(***************************************************************************)
peek_records == 10000

\* The for loop over iter_linescan: TRUE when it ends without finding a
\* record whose length (less its identifier line) differs from the first's.
RECURSIVE peek_uniform(_, _, _, _, _)
peek_uniform(openfun, data, gen, count, last_length) ==
    LET r == iter_linescan(openfun, data, gen)
        len == r.block.length - Len(r.block.line0)
    IN  IF r.kind = "stop" THEN TRUE
        ELSE IF count + 1 > peek_records THEN TRUE
        ELSE IF last_length = -1
        THEN peek_uniform(openfun, data, r.gen, count + 1, len)
        ELSE IF last_length # len THEN FALSE
        ELSE peek_uniform(openfun, data, r.gen, count + 1, last_length)

check_format(disk, filename) ==
    LET data == open_rb(disk, filename)
        l1 == readline(data, 0)
        l2 == readline(data, Len(l1))
        l3 == readline(data, Len(l1) + Len(l2))
    IN  IF ~validate_casava_header(l1) THEN "SKIP"
        ELSE IF l3 # <<"+", "\n">> THEN "LINE_SCAN"
        ELSE IF ~peek_uniform(flexopen(filename), data, NewGen, 0, -1)
        THEN "LINE_SCAN"
        ELSE "SEEK_SCAN"

(***************************************************************************)
(* The inputs: FASTQ files built from a few kinds of record.               *)
(***************************************************************************)
CasavaId(flowcell, filtered) ==
    <<"@", "A", ":", "1", ":">> \o flowcell
        \o <<":", "1", ":", "1", ":", "1", ":", "1", " ", "1", ":">>
        \o <<filtered>> \o <<":", "0", ":", "A", "\n">>

PlainBody == <<"A", "\n", "+", "\n", "I", "\n">>

RecordBytes(kind) ==
    CASE kind = "pass" -> CasavaId(<<"B">>, "N") \o PlainBody
      [] kind = "fail" -> CasavaId(<<"B">>, "Y") \o PlainBody
      [] kind = "flowcellY" -> CasavaId(<<"Y">>, "N") \o PlainBody
      [] kind = "noncasava" -> <<"@", "r", "\n">> \o PlainBody
      [] kind = "plus" ->
            CasavaId(<<"B">>, "N") \o <<"A", "\n", "+", "x", "\n", "I", "\n">>
      [] kind = "long" ->
            CasavaId(<<"B">>, "N") \o <<"A", "A", "\n", "+", "\n", "I", "I", "\n">>
      [] kind = "blank" -> <<"\n">>

\* The record kinds the probe tells apart (first file) and those of its mates.
FirstKinds == {"pass", "fail", "flowcellY", "noncasava", "plus", "blank"}

MateKinds == {"pass", "fail", "long", "blank"}

\* The record kinds the iterators tell apart.
ScanKinds == {"pass", "fail", "long", "blank"}

SeqsUpTo(S, n) == UNION {[1..m -> S] : m \in 0..n}

FileBytes(kinds) == Concat([i \in 1..Len(kinds) |-> RecordBytes(kinds[i])])

InputName(i, ext) == [dir |-> "data", stem |-> "reads" \o ToString(i), ext |-> ext]

InputFile(ext, data) ==
    RegularFile(IF ext = ".gz" THEN gzip_compress(data) ELSE data)

\* A file-set of one file, of a pair (first, mate), or of three or more
\* files that all hold what the first holds.
InitFiles(firstKinds, mateKinds) ==
    \E n \in 1..MaxFiles, ext \in {".fq", ".gz"},
       first \in SeqsUpTo(firstKinds, MaxRecords),
       mate \in SeqsUpTo(mateKinds, MaxRecords) :
        /\ n # 2 => mate = <<>>
        /\ fq_list = [i \in 1..n |-> InputName(i, ext)]
        /\ fs = [p \in {InputName(i, ext) : i \in 1..n} |->
                    IF n = 2 /\ p = InputName(2, ext)
                    THEN InputFile(ext, FileBytes(mate))
                    ELSE InputFile(ext, FileBytes(first))]

(***************************************************************************)
(* scan and block_scan, one round of the zip loop per step.                *)
(***************************************************************************)
\* copy_chunks' and copy_last_chunk's default chunk_size.
default_chunk_size == 64 * 2^20

InitIdle ==
    /\ iterfunc = "none"
    /\ gens = <<>>
    /\ bad_ranges = <<>>
    /\ fellback = FALSE
    /\ merged_ranges = <<>>
    /\ out_file_dict = <<>>
    /\ widx = 0
    /\ ridx = 0
    /\ src_pos = 0
    /\ length = 0
    /\ call_length = 0
    /\ call_copied = 0
    /\ last_read = 0
    /\ error = "none"

\* Where scan's caller goes on when scan returns.
AfterScan == "merge_ranges"

Scan ==
    /\ pc = "scan"
    /\ IF strategy = "SKIP"
       THEN /\ bad_ranges' = EmptyRanges(fq_list)
            /\ pc' = AfterScan
            /\ UNCHANGED <<iterfunc, gens>>
       ELSE /\ iterfunc' = IF strategy = "SEEK_SCAN" THEN "iter_seekscan"
                           ELSE "iter_linescan"
            /\ bad_ranges' = EmptyRanges(fq_list)
            /\ gens' = NewGens(fq_list)
            /\ pc' = "block_scan"
    /\ UNCHANGED <<fs, fq_list, out_prefix, strategy, fellback, merged_ranges,
                   ranges_in, out_file_dict, widx, ridx, src_pos, length,
                   chunk_size, call_length, call_copied, last_read, error>>

BlockScanStep ==
    /\ pc = "block_scan"
    /\ LET z == zip_next(iterfunc, fq_list, fs, gens)
       IN  /\ gens' = z.gens
           /\ IF z.kind = "block"
              THEN /\ bad_ranges' = scan_round(fq_list, bad_ranges, z.blocks)
                   /\ pc' = "block_scan"
              ELSE /\ bad_ranges' = bad_ranges
                   /\ pc' = IF z.kind = "stop" THEN AfterScan ELSE "except"
    /\ UNCHANGED <<fs, fq_list, out_prefix, strategy, iterfunc, fellback,
                   merged_ranges, ranges_in, out_file_dict, widx, ridx, src_pos,
                   length, chunk_size, call_length, call_copied, last_read,
                   error>>

\* ScanExcept with a slip: the line-scan goes on from the dict the seek-scan
\* had filled.
ScanExceptKeepsRanges ==
    /\ pc = "except"
    /\ fellback' = TRUE
    /\ iterfunc' = "iter_linescan"
    /\ gens' = NewGens(fq_list)
    /\ pc' = "block_scan"
    /\ UNCHANGED <<fs, fq_list, out_prefix, strategy, bad_ranges, merged_ranges,
                   ranges_in, out_file_dict, widx, ridx, src_pos, length,
                   chunk_size, call_length, call_copied, last_read, error>>

\* scan's except IrregularRecordLengthException clause: block_scan anew
\* with iter_linescan.
ScanExcept ==
    /\ pc = "except"
    /\ fellback' = TRUE
    /\ iterfunc' = "iter_linescan"
    /\ bad_ranges' = EmptyRanges(fq_list)
    /\ gens' = NewGens(fq_list)
    /\ pc' = "block_scan"
    /\ UNCHANGED <<fs, fq_list, out_prefix, strategy, merged_ranges, ranges_in,
                   out_file_dict, widx, ridx, src_pos, length, chunk_size,
                   call_length, call_copied, last_read, error>>

\* scan called with any strategy on any file-set.
InitScan ==
    /\ InitFiles(ScanKinds, ScanKinds)
    /\ InitIdle
    /\ ranges_in = <<>>
    /\ out_prefix = [dir |-> "data", stem |-> "vf"]
    /\ chunk_size = default_chunk_size
    /\ strategy \in {"SKIP", "LINE_SCAN", "SEEK_SCAN"}
    /\ pc = "scan"

NextScan == Scan \/ BlockScanStep \/ ScanExcept

SpecScan == InitScan /\ [][NextScan]_vars

(***************************************************************************)
(* merge_range_set and merge_ranges.  A call gives [raised, value]: raised *)
(* stands for the TypeError of `end - start` when both are still None.     *)
(***************************************************************************)
Range(position, len) == [position |-> position, length |-> len]

\* The for loop from element i on; acc is <<>> while start and end are None,
\* <<start, end>> after.
RECURSIVE merge_loop(_, _, _, _)
merge_loop(ranges, i, acc, merged) ==
    IF i > Len(ranges) THEN [acc |-> acc, merged |-> merged]
    ELSE LET rng == ranges[i]
             fresh == <<rng.position, rng.position + rng.length>>
         IN  IF acc = <<>>
             THEN merge_loop(ranges, i + 1, fresh, merged)
             ELSE IF acc[2] = rng.position
             THEN merge_loop(ranges, i + 1,
                             <<acc[1], rng.position + rng.length>>, merged)
             ELSE merge_loop(ranges, i + 1, fresh,
                             Append(merged, Range(acc[1], acc[2] - acc[1])))

merge_range_set(ranges) ==
    LET r == merge_loop(ranges, 1, <<>>, <<>>)
    IN  IF r.acc = <<>> THEN [raised |-> TRUE, value |-> r.merged]
        ELSE [raised |-> FALSE,
              value |-> Append(r.merged, Range(r.acc[1], r.acc[2] - r.acc[1]))]

merge_ranges(bad, names) ==
    IF Len(bad[1]) = 0 THEN [raised |-> FALSE, value |-> bad]
    ELSE [raised |-> \E i \in 1..Len(names) : merge_range_set(bad[i]).raised,
          value |-> [i \in 1..Len(names) |-> merge_range_set(bad[i]).value]]

(***************************************************************************)
(* Output names.                                                           *)
(***************************************************************************)
pair_ordinals == <<"1", "2">>

\* f'{out_prefix}_R{ordinal}.fq.gz': the name ends in .gz.
get_outfile(prefix, ordinal) ==
    [dir |-> prefix.dir, stem |-> prefix.stem \o "_R" \o ordinal \o ".fq",
     ext |-> ".gz"]

\* zip(fq_list, pair_ordinals) ends with the shorter of the two.
get_outfile_dict(names, prefix) ==
    [i \in 1..Min({Len(names), Len(pair_ordinals)}) |->
        get_outfile(prefix, pair_ordinals[i])]

(***************************************************************************)
(* vendorfail: probe, scan, merge, name, write.                            *)
(***************************************************************************)
CheckFormat ==
    /\ pc = "check_format"
    /\ strategy' = check_format(fs, fq_list[1])
    /\ pc' = "scan"
    /\ UNCHANGED <<fs, fq_list, out_prefix, iterfunc, gens, bad_ranges,
                   fellback, merged_ranges, ranges_in, out_file_dict, widx,
                   ridx, src_pos, length, chunk_size, call_length, call_copied,
                   last_read, error>>

MergeRanges ==
    /\ pc = "merge_ranges"
    /\ LET m == merge_ranges(bad_ranges, fq_list)
       IN  IF m.raised
           THEN /\ error' = "TypeError"
                /\ pc' = "raised"
                /\ UNCHANGED merged_ranges
           ELSE /\ merged_ranges' = m.value
                /\ pc' = "get_outfile_dict"
                /\ UNCHANGED error
    /\ UNCHANGED <<fs, fq_list, out_prefix, strategy, iterfunc, gens,
                   bad_ranges, fellback, ranges_in, out_file_dict, widx, ridx,
                   src_pos, length, chunk_size, call_length, call_copied,
                   last_read>>

GetOutfileDict ==
    /\ pc = "get_outfile_dict"
    /\ out_file_dict' = get_outfile_dict(fq_list, out_prefix)
    /\ widx' = 1
    /\ pc' = "write_pass"
    /\ UNCHANGED <<fs, fq_list, out_prefix, strategy, iterfunc, gens,
                   bad_ranges, fellback, merged_ranges, ranges_in, ridx,
                   src_pos, length, chunk_size, call_length, call_copied,
                   last_read, error>>

\* os.symlink(os.path.basename(filename), outfile): the link holds the bare
\* name of the source.
symlink(disk, filename, outfile) ==
    [p \in DOMAIN disk \cup {outfile} |->
        IF p = outfile THEN SymLink(basename(filename)) ELSE disk[p]]

\* openfun(out_filename, 'wb') with openfun = flexopen(fq): an empty output.
open_wb(disk, fq, outfile) ==
    [p \in DOMAIN disk \cup {outfile} |->
        IF p = outfile THEN RegularFile(written_wb(flexopen(fq), <<>>))
        ELSE disk[p]]

\* dest.write(chunk)
dest_write(disk, outfile, chunk) ==
    [disk EXCEPT ![outfile].raw = @ \o chunk]

\* One turn of vendorfail's loop over merged_ranges.items(): the look-up of
\* out_file_dict[fq] and write_pass up to its for loop.
WritePass ==
    /\ pc = "write_pass"
    /\ IF widx > Len(fq_list)
       THEN /\ pc' = "done"
            /\ UNCHANGED <<fs, widx, ridx, src_pos, error>>
       ELSE IF widx \notin DOMAIN out_file_dict
       THEN /\ error' = "KeyError"
            /\ pc' = "raised"
            /\ UNCHANGED <<fs, widx, ridx, src_pos>>
       ELSE IF Len(merged_ranges[widx]) = 0
       THEN IF out_file_dict[widx] \in DOMAIN fs
            THEN /\ error' = "FileExistsError"
                 /\ pc' = "raised"
                 /\ UNCHANGED <<fs, widx, ridx, src_pos>>
            ELSE /\ fs' = symlink(fs, fq_list[widx], out_file_dict[widx])
                 /\ widx' = widx + 1
                 /\ pc' = "write_pass"
                 /\ UNCHANGED <<ridx, src_pos, error>>
       ELSE /\ fs' = open_wb(fs, fq_list[widx], out_file_dict[widx])
            /\ src_pos' = 0
            /\ ridx' = 1
            /\ pc' = "for_range"
            /\ UNCHANGED <<widx, error>>
    /\ UNCHANGED <<fq_list, out_prefix, strategy, iterfunc, gens, bad_ranges,
                   fellback, merged_ranges, ranges_in, out_file_dict, length,
                   chunk_size, call_length, call_copied, last_read>>

\* write_pass: `for range in ranges`, up to the call of copy_chunks.
ForRange ==
    /\ pc = "for_range"
    /\ IF ridx <= Len(merged_ranges[widx])
       THEN /\ length' = merged_ranges[widx][ridx].position - src_pos
            /\ call_length' = merged_ranges[widx][ridx].position - src_pos
            /\ call_copied' = 0
            /\ pc' = "copy_chunks"
       ELSE /\ pc' = "copy_last_chunk"
            /\ UNCHANGED <<length, call_length, call_copied>>
    /\ UNCHANGED <<fs, fq_list, out_prefix, strategy, iterfunc, gens,
                   bad_ranges, fellback, merged_ranges, ranges_in,
                   out_file_dict, widx, ridx, src_pos, chunk_size, last_read,
                   error>>

\* chunk_nbytes with a slip: a whole chunk is read whatever is left to copy.
chunk_nbytes_whole(chunk, len) == chunk

\* copy_chunks: the size of the next read.
chunk_nbytes(chunk, len) == IF chunk <= len THEN chunk ELSE len

\* One turn of copy_chunks' while loop; when the loop ends, write_pass seeks
\* past the excluded range.
CopyChunks ==
    /\ pc = "copy_chunks"
    /\ LET src == open_rb(fs, fq_list[widx])
           nbytes == chunk_nbytes(chunk_size, length)
           chunk == read(src, src_pos, nbytes)
       IN  IF length > 0
           THEN /\ length' = length - nbytes
                /\ last_read' = nbytes
                /\ fs' = dest_write(fs, out_file_dict[widx], chunk)
                /\ src_pos' = src_pos + Len(chunk)
                /\ call_copied' = call_copied + Len(chunk)
                /\ pc' = "copy_chunks"
                /\ UNCHANGED ridx
           ELSE /\ src_pos' = seek_cur(flexopen(fq_list[widx]), src, src_pos,
                                       merged_ranges[widx][ridx].length)
                /\ ridx' = ridx + 1
                /\ pc' = "for_range"
                /\ UNCHANGED <<fs, length, last_read, call_copied>>
    /\ UNCHANGED <<fq_list, out_prefix, strategy, iterfunc, gens, bad_ranges,
                   fellback, merged_ranges, ranges_in, out_file_dict, widx,
                   chunk_size, call_length, error>>

\* One turn of copy_last_chunk's while loop; when it ends the files are
\* closed and vendorfail's loop goes on.
CopyLastChunk ==
    /\ pc = "copy_last_chunk"
    /\ LET src == open_rb(fs, fq_list[widx])
           chunk == read(src, src_pos, chunk_size)
       IN  /\ last_read' = chunk_size
           /\ IF Len(chunk) = 0
              THEN /\ widx' = widx + 1
                   /\ pc' = "write_pass"
                   /\ UNCHANGED <<fs, src_pos>>
              ELSE /\ fs' = dest_write(fs, out_file_dict[widx], chunk)
                   /\ src_pos' = src_pos + Len(chunk)
                   /\ pc' = "copy_last_chunk"
                   /\ UNCHANGED widx
    /\ UNCHANGED <<fq_list, out_prefix, strategy, iterfunc, gens, bad_ranges,
                   fellback, merged_ranges, ranges_in, out_file_dict, ridx,
                   length, chunk_size, call_length, call_copied, error>>

\* vendorfail(fq_list, out_prefix, log) on a file-set in directory data, the
\* output prefix naming that directory or another.
Init ==
    /\ InitFiles(FirstKinds, MateKinds)
    /\ InitIdle
    /\ ranges_in = <<>>
    /\ out_prefix \in {[dir |-> "data", stem |-> "vf"], [dir |-> "out", stem |-> "vf"]}
    /\ chunk_size = default_chunk_size
    /\ strategy = "none"
    /\ pc = "check_format"

Next ==
    \/ CheckFormat
    \/ Scan
    \/ BlockScanStep
    \/ ScanExcept
    \/ MergeRanges
    \/ GetOutfileDict
    \/ WritePass
    \/ ForRange
    \/ CopyChunks
    \/ CopyLastChunk

Spec == Init /\ [][Next]_vars

(***************************************************************************)
(* What the claims speak of: the lines and the records of a file.          *)
(***************************************************************************)
RECURSIVE LinesFrom(_, _)
LinesFrom(data, pos) ==
    IF pos >= Len(data) THEN <<>>
    ELSE <<readline(data, pos)>> \o LinesFrom(data, pos + Len(readline(data, pos)))

Lines(data) == LinesFrom(data, 0)

\* Whole four-line records, every line ended by a newline, every identifier
\* line starting with "@".
WellFormed(data) ==
    LET ls == Lines(data)
    IN  /\ Len(ls) % 4 = 0
        /\ \A i \in 1..Len(ls) : ls[i][Len(ls[i])] = "\n"
        /\ \A i \in 1..Len(ls) : i % 4 = 1 => ls[i][1] = "@"

\* Every record has the sequence/separator/quality byte length of the first.
UniformLength(data) ==
    LET ls == Lines(data)
        tail(k) == Len(ls[4 * k + 2]) + Len(ls[4 * k + 3]) + Len(ls[4 * k + 4])
    IN  \A k \in 0..((Len(ls) \div 4) - 1) : tail(k) = tail(0)

FileData(i) == open_rb(fs, fq_list[i])

UniformFileSet ==
    \A i \in 1..Len(fq_list) : WellFormed(FileData(i)) /\ UniformLength(FileData(i))

LineScanResult == block_scan(fq_list, fs, "iter_linescan").bad_ranges

\* C5: on a well-formed file-set of uniform record length, block_scan driven
\* by iter_seekscan never raises and returns the bad-range-lists that
\* block_scan driven by iter_linescan returns: same positions, same lengths,
\* same order, for every file.
C5_StrategyEquivalence ==
    (strategy = "SEEK_SCAN" /\ UniformFileSet) =>
        /\ pc # "except"
        /\ ~fellback
        /\ pc = AfterScan => bad_ranges = LineScanResult

\* A seek-scan of a uniform pair that flagged two records has returned.
C5_Witness ==
    /\ strategy = "SEEK_SCAN"
    /\ UniformFileSet
    /\ pc = AfterScan
    /\ iterfunc = "iter_seekscan"
    /\ Len(fq_list) = 2
    /\ Len(bad_ranges[2]) = 2

\* C7: once an iterator of a seek-scan has raised the irregular-record-length
\* condition, scan goes on in its except clause and never ends in an error,
\* and what it returns is what a line-scan of the whole file-set from the
\* beginning returns: nothing collected before the exception is kept.
C7_IrregularRecovery ==
    (strategy = "SEEK_SCAN" /\ (pc = "except" \/ fellback)) =>
        /\ error = "none"
        /\ pc \in {"except", "block_scan", AfterScan}
        /\ fellback => iterfunc = "iter_linescan"
        /\ pc = AfterScan => bad_ranges = LineScanResult

\* scan has returned after a fallback of a pair: the seek-scan had collected
\* a range for the second file before its iterator raised.
C7_Witness ==
    /\ strategy = "SEEK_SCAN"
    /\ fellback
    /\ pc = AfterScan
    /\ Len(fq_list) = 2
    /\ block_scan(fq_list, fs, "iter_seekscan").kind = "raise"
    /\ Len(block_scan(fq_list, fs, "iter_seekscan").bad_ranges[2]) > 0
    /\ Len(bad_ranges[2]) > 0

(***************************************************************************)
(* What the claims speak of: records, outputs, the end of a run.           *)
(***************************************************************************)
NumRecords(data) == Len(Lines(data)) \div 4

\* Record k (1-based) of a file: its four lines.
RecordLines(data, k) == SubSeq(Lines(data), 4 * k - 3, 4 * k)

IdLine(data, k) == Lines(data)[4 * k - 3]

\* The offset at which record k starts.
RecordStart(data, k) == SumLen(SubSeq(Lines(data), 1, 4 * k - 4))

HasMarker(line) == block_fail(Block(0, line, 0))

\* The filtered-flag field of a Casava identifier line: the second field
\* after the blank.
FilteredFlag(line) ==
    LET sp == Min({i \in 1..Len(line) : line[i] = " "})
    IN  line[sp + 3]

\* All files are whole FASTQ files with the same number of records.
Synchronized ==
    /\ \A i \in 1..Len(fq_list) : WellFormed(FileData(i))
    /\ \A i \in 1..Len(fq_list) : NumRecords(FileData(i)) = NumRecords(FileData(1))

\* Some file's identifier line of record k carries the vendor-fail marker.
MarkedStep(k) ==
    \E j \in 1..Len(fq_list) : HasMarker(IdLine(FileData(j), k))

\* The records of file i that no file marks, in their order.
UnmarkedRecords(i) ==
    LET data == FileData(i)
        keep(k) == IF MarkedStep(k) THEN <<>> ELSE Concat(RecordLines(data, k))
    IN  Concat([k \in 1..NumRecords(data) |-> keep(k)])

RunEnded == pc \in {"done", "raised"}

\* The name the output of the file at position i is to have.
OutputName(i) ==
    [dir |-> out_prefix.dir,
     stem |-> out_prefix.stem \o "_R" \o ToString(i) \o ".fq",
     ext |-> ".gz"]

\* Where a path leads: a link is followed from the directory it lies in.
Resolve(p) ==
    IF fs[p].type = "link"
    THEN [dir |-> p.dir, stem |-> fs[p].target.stem, ext |-> fs[p].target.ext]
    ELSE p

OutputResolves(i) ==
    /\ OutputName(i) \in DOMAIN fs
    /\ Resolve(OutputName(i)) \in DOMAIN fs
    /\ fs[Resolve(OutputName(i))].type = "file"

\* The records an output holds, read as a compressed or as a plain stream.
OutputRecords(i) ==
    LET raw == fs[Resolve(OutputName(i))].raw
    IN  IF is_gzip_stream(raw) THEN gzip_decompress(raw) ELSE raw

\* write_pass has returned for the file at position i.
Written(i) ==
    /\ pc \in {"write_pass", "for_range", "copy_chunks", "copy_last_chunk", "done",
               "raised"}
    /\ error # "TypeError"
    /\ i < widx

\* C1: a synchronized file-set run through vendorfail (probe, scan, merge,
\* write, to the end): for every record index k that some file marks, the
\* record k of every file is absent from that file's output and every other
\* record of the file is in it, unmodified and in order.  (Stated for the
\* runs the probe does not skip; C8 is about the others.)
C1_UnitRemoval ==
    (pc = "done" /\ Synchronized /\ strategy # "SKIP") =>
        \A k \in 1..NumRecords(FileData(1)) :
            MarkedStep(k) =>
                \A i \in 1..Len(fq_list) :
                    /\ OutputResolves(i)
                    /\ OutputRecords(i) = UnmarkedRecords(i)

\* C2: after write_pass for a file whose merged-range-list is empty, the
\* output path, followed as a link, leads to content byte-identical to the
\* input file, wherever the output prefix places it.
C2_PassThroughIdentity ==
    \A i \in 1..Len(fq_list) :
        (Written(i) /\ merged_ranges[i] = <<>>) =>
            /\ OutputResolves(i)
            /\ fs[Resolve(OutputName(i))].raw = fs[fq_list[i]].raw

\* C3: every output a run has produced is a compressed stream, whether the
\* input was plain or compressed, whether records were removed or not.
C3_OutputCompressed ==
    \A i \in 1..Len(fq_list) :
        (Written(i) /\ OutputResolves(i)) =>
            is_gzip_stream(fs[Resolve(OutputName(i))].raw)

\* C6: every file of the set, whatever its length, is given the output name
\* <prefix>_R<i>.fq.gz of its position i, and the run writes an output under
\* each of these names.
C6_OutputNaming ==
    /\ pc \in {"write_pass", "for_range", "copy_chunks", "copy_last_chunk", "done"} =>
          /\ DOMAIN out_file_dict = 1..Len(fq_list)
          /\ \A i \in 1..Len(fq_list) : out_file_dict[i] = OutputName(i)
    /\ RunEnded =>
          /\ error = "none"
          /\ \A i \in 1..Len(fq_list) : OutputName(i) \in DOMAIN fs

\* C8: when the probe returns Skip, no error is raised, scan opens no
\* iterator and returns an empty list for every file, and every file is
\* passed through by a link to it, no byte copied, marker or no marker.
C8_SkipPassThrough ==
    strategy = "SKIP" =>
        /\ error = "none"
        /\ iterfunc = "none"
        /\ gens = <<>>
        /\ pc \notin {"check_format", "scan"} => bad_ranges = EmptyRanges(fq_list)
        /\ RunEnded =>
              \A i \in 1..Len(fq_list) :
                  /\ OutputName(i) \in DOMAIN fs
                  /\ fs[OutputName(i)] = SymLink(basename(fq_list[i]))

\* Every identifier line of every file matches the grammar of the probe.
AllCasava ==
    \A i \in 1..Len(fq_list) :
        /\ WellFormed(FileData(i))
        /\ \A k \in 1..NumRecords(FileData(i)) :
              validate_casava_header(IdLine(FileData(i), k))

\* C9: with every identifier line matching the grammar, a range is in a
\* bad-range-list only if it is the range of a record index at which some
\* file's filtered-flag field is Y.
C9_OnlyFlaggedRemoved ==
    (AllCasava /\ bad_ranges # <<>>) =>
        \A i \in 1..Len(fq_list) : \A r \in 1..Len(bad_ranges[i]) :
            \E k \in 1..NumRecords(FileData(i)) :
                /\ RecordStart(FileData(i), k) = bad_ranges[i][r].position
                /\ \E j \in 1..Len(fq_list) :
                      /\ k <= NumRecords(FileData(j))
                      /\ FilteredFlag(IdLine(FileData(j), k)) = "Y"

(***************************************************************************)
(* merge_range_set called on its own, on any sorted, non-overlapping list  *)
(* of ranges below MaxOffset.                                              *)
(***************************************************************************)
MaxOffset == 5
MaxRanges == 3

SortedNonOverlapping(rs) ==
    \A i \in 1..(Len(rs) - 1) : rs[i].position + rs[i].length <= rs[i + 1].position

NoneAdjacent(rs) ==
    \A i \in 1..(Len(rs) - 1) : rs[i].position + rs[i].length # rs[i + 1].position

Covered(rs) ==
    UNION {rs[i].position..(rs[i].position + rs[i].length - 1) : i \in 1..Len(rs)}

\* The sorted, non-overlapping lists of at most n non-empty ranges in 0..size-1.
RangeLists(size, n) ==
    LET rngs == {Range(p, l) : p \in 0..(size - 1), l \in 1..size}
    IN  {rs \in SeqsUpTo({r \in rngs : r.position + r.length <= size}, n) :
            SortedNonOverlapping(rs)}

InitMerge ==
    /\ InitIdle
    /\ fs = <<>>
    /\ fq_list = <<>>
    /\ out_prefix = [dir |-> "data", stem |-> "vf"]
    /\ chunk_size = default_chunk_size
    /\ strategy = "none"
    /\ ranges_in \in RangeLists(MaxOffset, MaxRanges)
    /\ pc = "merge_range_set"

MergeRangeSetCall ==
    /\ pc = "merge_range_set"
    /\ merged_ranges' = merge_range_set(ranges_in).value
    /\ error' = IF merge_range_set(ranges_in).raised THEN "TypeError" ELSE "none"
    /\ pc' = IF merge_range_set(ranges_in).raised THEN "raised" ELSE "returned"
    /\ UNCHANGED <<fs, fq_list, out_prefix, strategy, iterfunc, gens,
                   bad_ranges, fellback, ranges_in, out_file_dict, widx, ridx,
                   src_pos, length, chunk_size, call_length, call_copied,
                   last_read>>

NextMerge == MergeRangeSetCall

SpecMerge == InitMerge /\ [][NextMerge]_vars

\* C4: for any sorted, non-overlapping list, the empty list and the lists of
\* one range included, merge_range_set returns a sorted, non-overlapping
\* list with no two ranges adjacent that covers the positions the input
\* covers.
C4_MergeCorrect ==
    pc # "merge_range_set" =>
        /\ pc = "returned"
        /\ SortedNonOverlapping(merged_ranges)
        /\ NoneAdjacent(merged_ranges)
        /\ Covered(merged_ranges) = Covered(ranges_in)

(***************************************************************************)
(* write_pass called on its own: any source of at most MaxOffset bytes,    *)
(* any non-empty sorted non-overlapping range list within it, any          *)
(* chunk_size up to MaxChunk.                                              *)
(***************************************************************************)
MaxChunk == 3

SrcBytes(n) == [i \in 1..n |-> "b" \o ToString(i)]

InitWrite ==
    \E n \in 0..MaxOffset, ext \in {".fq", ".gz"} :
        /\ fq_list = <<InputName(1, ext)>>
        /\ fs = [p \in {InputName(1, ext)} |-> InputFile(ext, SrcBytes(n))]
        /\ out_prefix = [dir |-> "out", stem |-> "vf"]
        /\ out_file_dict = get_outfile_dict(<<InputName(1, ext)>>,
                                            [dir |-> "out", stem |-> "vf"])
        /\ \E rs \in RangeLists(n, MaxRanges) :
              /\ rs # <<>>
              /\ merged_ranges = <<rs>>
        /\ chunk_size \in 1..MaxChunk
        /\ widx = 1
        /\ pc = "write_pass"
        /\ strategy = "none"
        /\ iterfunc = "none"
        /\ gens = <<>>
        /\ bad_ranges = <<>>
        /\ fellback = FALSE
        /\ ranges_in = <<>>
        /\ ridx = 0
        /\ src_pos = 0
        /\ length = 0
        /\ call_length = 0
        /\ call_copied = 0
        /\ last_read = 0
        /\ error = "none"

NextWrite == WritePass \/ ForRange \/ CopyChunks \/ CopyLastChunk

\* The single thread runs on until write_pass has returned.
SpecWrite == InitWrite /\ [][NextWrite]_vars /\ WF_vars(NextWrite)

\* The bytes of data outside every range of rs, in order.
RECURSIVE KeptFrom(_, _, _)
KeptFrom(data, rs, i) ==
    IF i > Len(data) THEN <<>>
    ELSE (IF (i - 1) \in Covered(rs) THEN <<>> ELSE <<data[i]>>)
             \o KeptFrom(data, rs, i + 1)

Kept(data, rs) == KeptFrom(data, rs, 1)

C10_Safe ==
    /\ last_read <= chunk_size
    /\ pc = "copy_chunks" => call_copied + length = call_length
    /\ (pc = "copy_chunks" /\ length <= 0) => call_copied = call_length
    /\ pc = "done" =>
          /\ OutputName(1) \in DOMAIN fs
          /\ fs[OutputName(1)].type = "file"
          /\ OutputRecords(1) = Kept(FileData(1), merged_ranges[1])

\* C10: write_pass on a non-empty, sorted, non-overlapping range list within
\* the source writes exactly the source bytes outside every range, in order,
\* the bytes after the last range included; no read asks for more than
\* chunk_size bytes; every copy_chunks call transfers exactly the length it
\* was given; and the copy loops end: write_pass returns.
C10_ChunkWriterCopy == []C10_Safe /\ <>(pc = "done")

\* write_pass has returned after copying, in more than one chunk, a source
\* with two excluded ranges and bytes after the last.
C10_Witness ==
    /\ pc = "done"
    /\ widx = 2
    /\ Len(merged_ranges[1]) = 2
    /\ chunk_size = 1
    /\ merged_ranges[1][1].position >= 2
    /\ Len(OutputRecords(1)) >= 3
    /\ OutputRecords(1)[Len(OutputRecords(1))] = FileData(1)[Len(FileData(1))]

(***************************************************************************)
(* scan and merge_ranges on a file-set as the command line gives it: one   *)
(* or more file names, which nothing requires to differ.                   *)
(***************************************************************************)
\* The file names the file-set is drawn from.
MaxNames == 2

InitLockStep ==
    /\ \E n \in 1..MaxFiles, ext \in {".fq", ".gz"},
          first \in SeqsUpTo(ScanKinds, MaxRecords),
          mate \in SeqsUpTo(ScanKinds, MaxRecords) :
         \E idx \in [1..n -> 1..MaxNames] :
            /\ fq_list = [i \in 1..n |-> InputName(idx[i], ext)]
            /\ fs = [p \in {InputName(idx[i], ext) : i \in 1..n} |->
                        IF p = InputName(1, ext)
                        THEN InputFile(ext, FileBytes(first))
                        ELSE InputFile(ext, FileBytes(mate))]
    /\ InitIdle
    /\ ranges_in = <<>>
    /\ out_prefix = [dir |-> "data", stem |-> "vf"]
    /\ chunk_size = default_chunk_size
    /\ strategy \in {"SKIP", "LINE_SCAN", "SEEK_SCAN"}
    /\ pc = "scan"

NextLockStep == Scan \/ BlockScanStep \/ ScanExcept \/ MergeRanges

SpecLockStep == InitLockStep /\ [][NextLockStep]_vars

\* block_scan has been entered: bad_ranges is the dict it fills or returned.
Scanned == pc \in {"block_scan", "except", AfterScan}

DistinctNames ==
    \A i, j \in 1..Len(fq_list) : fq_list[i] = fq_list[j] => i = j

StrictlyIncreasing(rs) ==
    \A i \in 1..(Len(rs) - 1) : rs[i].position < rs[i + 1].position

Ordered(rs) == StrictlyIncreasing(rs) /\ SortedNonOverlapping(rs)

\* C11: after every step of block_scan, under either iterator and for every
\* file-set, each file's bad-range-list is strictly increasing in position
\* and non-overlapping: each range starts at or after the end of the range
\* before it.
C11_OrderedRanges ==
    Scanned => \A i \in 1..Len(fq_list) : Ordered(bad_ranges[i])

\* The ordering on the file-sets whose names all differ.
OrderedWhenDistinct == DistinctNames => C11_OrderedRanges

\* The record count of the shortest file of the file-set.
ShortestRecordCount ==
    Min({NumRecords(FileData(i)) : i \in 1..Len(fq_list)})

SameCardinality ==
    \A i, j \in 1..Len(fq_list) : Len(bad_ranges[i]) = Len(bad_ranges[j])

\* merge_ranges is about to run and takes `merged_ranges = bad_ranges`.
TakesShortcut == pc = "merge_ranges" /\ Len(bad_ranges[1]) = 0

\* merge_ranges is about to run and calls merge_range_set on every list.
MergesEveryList == pc = "merge_ranges" /\ Len(bad_ranges[1]) # 0

\* C12: after every step of block_scan all files' bad-range-lists have the
\* same number of entries, and none has an entry for a record at an index
\* at or beyond the shortest file's record count; so when merge_ranges takes
\* the first-file-empty shortcut every other list is empty as well, and
\* merge_range_set is never called on an empty list.
C12_LockStepCardinality ==
    /\ Scanned =>
          /\ SameCardinality
          /\ \A i \in 1..Len(fq_list) : Len(bad_ranges[i]) <= ShortestRecordCount
    /\ TakesShortcut => \A i \in 1..Len(fq_list) : bad_ranges[i] = <<>>
    /\ MergesEveryList => \A i \in 1..Len(fq_list) : bad_ranges[i] # <<>>
    /\ error # "TypeError"

\* The cardinality on the file-sets whose names all differ.
LockStepWhenDistinct == DistinctNames => C12_LockStepCardinality

\* What the merger is given whatever the names: the lists are empty or
\* non-empty together.
MergerInputsAgree ==
    /\ TakesShortcut => \A i \in 1..Len(fq_list) : bad_ranges[i] = <<>>
    /\ MergesEveryList => \A i \in 1..Len(fq_list) : bad_ranges[i] # <<>>
    /\ error # "TypeError"

====
